---- MODULE Spec2Model ----
(***************************************************************************)
(* The two Boston-housing notebooks of seetd/sagemaker-deployment as one   *)
(* state machine.  A notebook is a linear list of code cells run top to    *)
(* bottom by the kernel ("Run All": the first cell that raises stops the   *)
(* run).  nb says which notebook runs:                                     *)
(*   "deploy"  Tutorials/Boston Housing - XGBoost (Deploy) - High Level    *)
(*   "tuning"  unnamed/part_000 (hyperparameter tuning + batch transform)  *)
(* The managed service (training jobs, tuning job, endpoint, transform     *)
(* job, object storage) is the environment: its jobs advance in steps of   *)
(* their own, interleaved with the kernel, and every job may fail.         *)
(***************************************************************************)
EXTENDS Integers, Sequences, FiniteSets, TLC

\* ---------------------------------------------------------------- bounds
\* Largest dataset (number of rows) the workflow specification draws.
MaxRows == 4
\* Largest dataset size of the row-count specification (besides BostonRows).
MaxSizeRows == 60
\* Largest objective value (validation:rmse, as a rank) a training job reports.
MaxRmse == 2

\* ------------------------------------------------------ program constants
\* test_size=0.33 of both train_test_split calls, as the fraction 33/100.
TestSizeNum == 33
TestSizeDen == 100
\* HyperparameterTuner(max_jobs = 20, max_parallel_jobs = 3)
max_jobs == 20
max_parallel_jobs == 3
\* Rows of the dataset load_boston() returns.
BostonRows == 506

VARIABLES
    nb,             \* which notebook is run
    pc,             \* the cell the kernel is at ("done", "raised" at the end)
    raisedAt,       \* the cell whose exception stopped the run, or "none"
    nrows,          \* number of rows of the loaded dataset
    X_train, X_test, X_val,   \* row ids of the three frames (Y_* share them)
    data_dir,       \* TRUE iff the local directory ../data/boston exists
    files,          \* local files of data_dir: name -> content
    s3,             \* objects of the default bucket: key -> content
    train_location, val_location, test_location,  \* keys upload_data returned
    job,            \* Deploy notebook: the training job xgb.fit started
    endpoint,       \* Deploy notebook: state of the hosted endpoint
    tuning,         \* tuning notebook: the hyperparameter tuning job
    best,           \* tuning notebook: result of best_training_job()
    transform,      \* tuning notebook: the batch transform job
    rmse,           \* tuning notebook: validation:rmse each training job reports
    xgb_attached,   \* tuning notebook: training job Estimator.attach attached to
    Y_pred,         \* rows a prediction was obtained for
    calls           \* the service calls made so far, in order

vars == << nb, pc, raisedAt, nrows, X_train, X_test, X_val, data_dir, files,
           s3, train_location, val_location, test_location, job, endpoint,
           tuning, best, transform, rmse, xgb_attached, Y_pred, calls >>

\* An unset variable holds None, a set one holds Some(value).
None == << >>
Some(x) == << x >>
NoValue == "none"

\* ------------------------------------------------------------ cell lists
\* The steps of a run in order: one per cell, and one for each of the two
\* shell lines of the clean-up cell ("cleanup" is the rm line).
DeployCells == << "load", "split", "makedirs", "to_csv", "upload",
                  "estimator", "fit", "deploy", "predict", "plot",
                  "delete_endpoint", "cleanup", "rmdir" >>

TuningCells == << "load", "split", "makedirs", "to_csv", "upload",
                  "estimator", "tuner", "tuner_fit", "tuner_wait",
                  "best_training_job", "attach", "transformer", "transform",
                  "transform_wait", "s3_cp", "read_csv", "plot", "cleanup",
                  "rmdir" >>

Cells(n) == IF n = "deploy" THEN DeployCells ELSE TuningCells

IndexOf(seq, c) == CHOOSE i \in 1..Len(seq) : seq[i] = c

\* The cell the kernel runs after cell c returns normally.
After(n, c) ==
    LET cs == Cells(n)
        i  == IndexOf(cs, c)
    IN IF i = Len(cs) THEN "done" ELSE cs[i + 1]

\* --------------------------------------------------------- pure functions
\* sklearn's split sizes for a float test_size: n_test = ceil(test_size * n),
\* n_train = n - n_test.
\* (Variant: an exact third, ceil(n / 3).)
NTestThird(n) == (n + 2) \div 3
NTest(n) == (TestSizeNum * n + TestSizeDen - 1) \div TestSizeDen
NTrain(n) == n - NTest(n)

\* The shuffle of train_test_split: the test rows are any NTest of the rows.
AnyShuffle(S, k) == { T \in SUBSET S : Cardinality(T) = k }

\* One fixed shuffle: the k smallest row ids (row counts do not depend on
\* the shuffle).
Smallest(S, k) == { x \in S : Cardinality({ y \in S : y < x }) < k }
SortedShuffle(S, k) == { Smallest(S, k) }
Shuffle(how, S, k) == IF how = "any" THEN AnyShuffle(S, k)
                      ELSE SortedShuffle(S, k)

\* Content of a CSV file or object: the columns of each line in order, the
\* rows it has a line for, and whether a header line precedes them.
Csv(cols, rws) == [cols |-> cols, rows |-> rws, header |-> FALSE]

\* A data frame: its columns in order (the target, the feature block) and
\* the rows of its index.
Frame(cols, rws) == [cols |-> cols, rows |-> rws]
\* X_* frames hold the features, Y_* frames the target, of the same rows.
XFrame(rws) == Frame(<< "features" >>, rws)
YFrame(rws) == Frame(<< "target" >>, rws)
\* pd.concat([a, b], axis=1): the columns of a, then those of b.
Concat(a, b) == Frame(a.cols \o b.cols, a.rows \cup b.rows)
\* frame.to_csv(path, header=..., index=...): one line per row, the index
\* first when index is set, and a header line when header is set.
ToCsv(frame, header, index) ==
    [cols |-> (IF index THEN << "index" >> ELSE << >>) \o frame.cols,
     rows |-> frame.rows, header |-> header]

\* upload_data(path, key_prefix): the key is key_prefix/basename(path).
\* (Variant: both notebooks with the Deploy notebook's prefix.)
PrefixSame(n) == "boston-xgboost-deploy-hl"
Prefix(n) == IF n = "deploy" THEN "boston-xgboost-deploy-hl"
             ELSE "boston-xgboost-tuning-HL"
Key(prefix, name) == << prefix, name >>

\* output_path = 's3://{}/{}/output'.format(bucket, prefix): where the
\* training jobs of notebook n put their model artifacts.
OutputKey(n) == Key(Prefix(n), "output")
\* What a completed training job leaves there (not a table).
ModelArtifact == [cols |-> << "model.tar.gz" >>, rows |-> {}, header |-> FALSE]

Put(f, k, v) == [x \in DOMAIN f \cup {k} |-> IF x = k THEN v ELSE f[x]]

NoJob == [status |-> "none", train |-> None, validation |-> None]
NoTuning == [status |-> "none", launched |-> 0, running |-> 0,
             train |-> None, validation |-> None, best |-> None]
NoTransform == [status |-> "none", input |-> None]

\* ------------------------------------------------------------------ Init
\* What ../data/boston may hold before the run when it already exists:
\* nothing, a train.csv left by an earlier run that stopped before its
\* clean-up cell, or an entry whose name begins with a dot.
DotNames == {".ipynb_checkpoints"}
Leftovers ==
    { << >>,
      [f \in {"train.csv"} |-> Csv(<< "target", "features" >>, {1})],
      [f \in DotNames |-> Csv(<< >>, {})] }

InitOn(sizes, leftovers) ==
    /\ nb \in {"deploy", "tuning"}
    /\ pc = "load"
    /\ raisedAt = "none"
    /\ nrows \in sizes
    /\ X_train = {} /\ X_test = {} /\ X_val = {}
    /\ data_dir \in BOOLEAN
    /\ files \in (IF data_dir THEN leftovers ELSE {<< >>})
    /\ s3 = << >>
    /\ train_location = None /\ val_location = None
    /\ test_location = None
    /\ job = NoJob
    /\ endpoint = "none"
    /\ tuning = NoTuning
    /\ best = None
    /\ transform = NoTransform
    /\ rmse = None
    /\ xgb_attached = None
    /\ Y_pred = None
    /\ calls = << >>

\* A run whose data directory, when it exists, is empty.
InitWith(sizes) == InitOn(sizes, {<< >>})

Init == InitWith(1..MaxRows)

\* ------------------------------------------------------------ kernel steps
Goto(c) == /\ pc' = After(nb, c) /\ raisedAt' = raisedAt
Raise(c) == /\ pc' = "raised" /\ raisedAt' = c

dataVars == << nrows, X_train, X_test, X_val >>
localVars == << data_dir, files >>
storeVars == << s3, train_location, val_location, test_location >>
serviceVars == << job, endpoint, tuning, best, transform >>

\* boston = load_boston()
LoadData ==
    /\ pc = "load"
    /\ Goto("load")
    /\ UNCHANGED << nb, dataVars, localVars, storeVars, serviceVars, rmse,
                    xgb_attached, Y_pred, calls >>

\* The two train_test_split calls of the split cell.  The first splits all
\* rows into train and test, the second splits that train part into train and
\* validation.  A split that would leave the train part empty raises in
\* newer sklearn releases and returns an empty frame in older ones.
\* (Variant: the second call splitting the whole dataset again.)
SecondSplitWhole(all, train1) == all
SecondSplitSource(all, train1) == train1

SplitWith(how) ==
    /\ pc = "split"
    /\ LET all == 1..nrows
       IN \E test \in Shuffle(how, all, NTest(nrows)) :
            LET train1 == all \ test
                src    == SecondSplitSource(all, train1)
            IN \/ /\ NTrain(nrows) = 0
                  /\ Raise("split")
                  /\ UNCHANGED << X_train, X_test, X_val >>
               \/ \E val \in Shuffle(how, src, NTest(Cardinality(src))) :
                    \/ /\ NTrain(Cardinality(src)) = 0
                       /\ Raise("split")
                       /\ X_test' = test
                       /\ X_train' = train1
                       /\ X_val' = {}
                    \/ /\ Goto("split")
                       /\ X_test' = test
                       /\ X_val' = val
                       /\ X_train' = src \ val
    /\ UNCHANGED << nb, nrows, localVars, storeVars, serviceVars, rmse,
                    xgb_attached, Y_pred, calls >>

SplitCell == SplitWith("any")

\* os.makedirs(data_dir): a new, empty directory.
Makedirs == [dir |-> TRUE, files |-> << >>]
\* (Variant: the directory is made anew whether or not it exists.)
MakeDirsAlways(d, fs) == Makedirs
\* if not os.path.exists(data_dir): os.makedirs(data_dir)
MakeDirsResult(d, fs) ==
    IF ~d THEN Makedirs ELSE [dir |-> d, files |-> fs]

MakeDirs ==
    /\ pc = "makedirs"
    /\ data_dir' = MakeDirsResult(data_dir, files).dir
    /\ files' = MakeDirsResult(data_dir, files).files
    /\ Goto("makedirs")
    /\ UNCHANGED << nb, dataVars, storeVars, serviceVars, rmse,
                    xgb_attached, Y_pred, calls >>

\* The to_csv cell.  Deploy: validation.csv, train.csv.  Tuning: test.csv
\* first, then the same two.
\* (Variant: the features concatenated before the target.)
LabelledFrameFeaturesFirst(rws) == Concat(XFrame(rws), YFrame(rws))
\* pd.concat([Y_val, X_val], axis=1), pd.concat([Y_train, X_train], axis=1)
LabelledFrame(rws) == Concat(YFrame(rws), XFrame(rws))

SaveCsv ==
    /\ pc = "to_csv"
    /\ LET f1 == IF nb = "tuning"
                 THEN Put(files, "test.csv",
                          ToCsv(XFrame(X_test), FALSE, FALSE))
                 ELSE files
           f2 == Put(f1, "validation.csv",
                     ToCsv(LabelledFrame(X_val), FALSE, FALSE))
           f3 == Put(f2, "train.csv",
                     ToCsv(LabelledFrame(X_train), FALSE, FALSE))
       IN files' = f3
    /\ Goto("to_csv")
    /\ UNCHANGED << nb, dataVars, data_dir, storeVars, serviceVars, rmse,
                    xgb_attached, Y_pred, calls >>

\* The upload cell: session.upload_data(path, key_prefix=prefix) once per
\* file, in the cell's order, each result kept in its *_location variable.
\* A call that fails raises; the uploads before it have happened.
UploadList(n) == IF n = "deploy" THEN << "validation.csv", "train.csv" >>
                 ELSE << "test.csv", "validation.csv", "train.csv" >>

RECURSIVE PutAll(_, _, _, _)
PutAll(store, n, list, k) ==
    IF k = 0 THEN store
    ELSE Put(PutAll(store, n, list, k - 1), Key(Prefix(n), list[k]),
             files[list[k]])

Uploaded(list, k, name) == \E i \in 1..k : list[i] = name

Call(op, arg) == [op |-> op, arg |-> arg]

RECURSIVE UploadCalls(_, _)
UploadCalls(list, k) ==
    IF k = 0 THEN << >>
    ELSE Append(UploadCalls(list, k - 1), Call("upload_data", list[k]))

Upload ==
    /\ pc = "upload"
    /\ LET list == UploadList(nb)
       IN \E k \in 0..Len(list) :
            /\ \A i \in 1..k : list[i] \in DOMAIN files
            /\ s3' = PutAll(s3, nb, list, k)
            /\ calls' = calls \o UploadCalls(list, k)
            /\ test_location' = IF Uploaded(list, k, "test.csv")
                                THEN Key(Prefix(nb), "test.csv")
                                ELSE test_location
            /\ val_location' = IF Uploaded(list, k, "validation.csv")
                               THEN Key(Prefix(nb), "validation.csv")
                               ELSE val_location
            /\ train_location' = IF Uploaded(list, k, "train.csv")
                                 THEN Key(Prefix(nb), "train.csv")
                                 ELSE train_location
            /\ IF k = Len(list) THEN Goto("upload") ELSE Raise("upload")
    /\ UNCHANGED << nb, dataVars, localVars, serviceVars, rmse, xgb_attached,
                    Y_pred >>

\* xgb = sagemaker.estimator.Estimator(...); xgb.set_hyperparameters(...)
\* Local objects only: no service call.
Estimator ==
    /\ pc = "estimator"
    /\ Goto("estimator")
    /\ UNCHANGED << nb, dataVars, localVars, storeVars, serviceVars, rmse,
                    xgb_attached, Y_pred, calls >>

\* ------------------------------------------------------- Deploy notebook
\* xgb.fit({'train': s3_input_train, 'validation': s3_input_validation})
\* with s3_input_train = s3_input(train_location), s3_input_validation =
\* s3_input(val_location).  fit() blocks until the training job has ended.
\* (Variant: the two channels swapped.)
FitChannelsSwapped(tl, vl) == [train |-> vl, validation |-> tl]
FitChannels(tl, vl) == [train |-> tl, validation |-> vl]

FitCall ==
    /\ pc = "fit" /\ job.status = "none"
    /\ LET ch == FitChannels(train_location, val_location)
       IN job' = [status |-> "InProgress", train |-> ch.train,
                  validation |-> ch.validation]
    /\ calls' = Append(calls, Call("fit", NoValue))
    /\ UNCHANGED << nb, pc, raisedAt, dataVars, localVars, storeVars,
                    endpoint, tuning, best, transform, rmse, xgb_attached,
                    Y_pred >>

\* Service: the training job ends, completed or failed.
WithArtifact(store, n) == Put(store, OutputKey(n), ModelArtifact)

TrainingJobEnds ==
    /\ job.status = "InProgress"
    /\ \E st \in {"Completed", "Failed"} :
         /\ job' = [job EXCEPT !.status = st]
         /\ s3' = IF st = "Completed" THEN WithArtifact(s3, nb) ELSE s3
    /\ UNCHANGED << nb, pc, raisedAt, dataVars, localVars, train_location,
                    val_location, test_location, endpoint, tuning, best, transform, rmse, xgb_attached,
                    Y_pred, calls >>

\* (Variant: a fit() that does not wait for the job.)
FitReturnsEarly(st) == st \in {"InProgress", "Completed", "Failed"}
FitReturns(st) == st \in {"Completed", "Failed"}

\* (Variant: a fit() that returns normally from a failed job.)
FitRaisesIgnored(st) == FALSE
\* xgb.fit(...) raises when the training job ended failed; no cell catches
\* an exception.
FitRaises(st) == st = "Failed"

FitReturn ==
    /\ pc = "fit" /\ FitReturns(job.status)
    /\ IF FitRaises(job.status) THEN Raise("fit") ELSE Goto("fit")
    /\ UNCHANGED << nb, dataVars, localVars, storeVars, serviceVars, rmse,
                    xgb_attached, Y_pred, calls >>

\* xgb_predictor = xgb.deploy(initial_instance_count=1, ...): creates the
\* model and the endpoint from the estimator's training job and blocks until
\* the endpoint is in service.
DeployCall ==
    /\ pc = "deploy" /\ endpoint = "none"
    /\ endpoint' = "Creating"
    /\ calls' = Append(calls, Call("deploy", NoValue))
    /\ UNCHANGED << nb, pc, raisedAt, dataVars, localVars, storeVars, job,
                    tuning, best, transform, rmse, xgb_attached, Y_pred >>

\* Service: the endpoint comes up, or its creation fails.
EndpointStarts ==
    /\ endpoint = "Creating"
    /\ endpoint' \in {"InService", "Failed"}
    /\ UNCHANGED << nb, pc, raisedAt, dataVars, localVars, storeVars, job,
                    tuning, best, transform, rmse, xgb_attached, Y_pred,
                    calls >>

\* (Variant: a deploy() that does not wait for the endpoint.)
DeployReturnsEarly(e) == e \in {"Creating", "InService", "Failed"}
DeployReturns(e) == e \in {"InService", "Failed"}

DeployReturn ==
    /\ pc = "deploy" /\ DeployReturns(endpoint)
    /\ IF endpoint = "InService" THEN Goto("deploy") ELSE Raise("deploy")
    /\ UNCHANGED << nb, dataVars, localVars, storeVars, serviceVars, rmse,
                    xgb_attached, Y_pred, calls >>

\* Y_pred = xgb_predictor.predict(X_test.values).decode('utf-8')
\* Y_pred = np.fromstring(Y_pred, sep=',')
\* One request with all test rows; the endpoint answers or the call raises.
\* predict() leaves the endpoint as it is.
\* (Variant: a predict() that shuts the endpoint down.)
EndpointAfterPredictStopped(e) == "Deleted"
EndpointAfterPredict(e) == e
\* (Variant: the first test row is left out of the request.)
PredictPayloadPartial(test) == {x \in test : \E y \in test : y < x}
\* X_test.values: the whole test frame as one array, the body of the one
\* request; the endpoint answers with one prediction per row sent.
PredictPayload(test) == test

Predict ==
    /\ pc = "predict"
    /\ calls' = Append(calls, Call("predict", PredictPayload(X_test)))
    /\ endpoint' = EndpointAfterPredict(endpoint)
    /\ \/ /\ endpoint = "InService"
          /\ Y_pred' = Some(PredictPayload(X_test))
          /\ Goto("predict")
       \/ /\ Y_pred' = Y_pred
          /\ Raise("predict")
    /\ UNCHANGED << nb, dataVars, localVars, storeVars, job, tuning, best,
                    transform, rmse, xgb_attached >>

\* plt.scatter(Y_test, Y_pred): raises when the two differ in size.
Plot ==
    /\ pc = "plot"
    /\ IF Y_pred # None /\ Cardinality(Y_pred[1]) = Cardinality(X_test)
       THEN Goto("plot") ELSE Raise("plot")
    /\ UNCHANGED << nb, dataVars, localVars, storeVars, serviceVars, rmse,
                    xgb_attached, Y_pred, calls >>

\* xgb_predictor.delete_endpoint(): the endpoint is deleted, or the request
\* fails and the endpoint stays as it was.
\* (Variant: a delete_endpoint() without effect.)
EndpointAfterDeleteKept(e) == e
EndpointAfterDelete(e) == "Deleted"

DeleteEndpoint ==
    /\ pc = "delete_endpoint"
    /\ calls' = Append(calls, Call("delete_endpoint", NoValue))
    /\ \/ /\ endpoint' = EndpointAfterDelete(endpoint)
          /\ Goto("delete_endpoint")
       \/ /\ endpoint' = endpoint
          /\ Raise("delete_endpoint")
    /\ UNCHANGED << nb, dataVars, localVars, storeVars, job, tuning, best,
                    transform, rmse, xgb_attached, Y_pred >>

\* $data_dir/* : the shell's * matches every entry of the directory whose
\* name does not begin with a dot.
Glob(fs) == {f \in DOMAIN fs : f \notin DotNames}
\* rm of the named files.
Rm(fs, names) == [f \in DOMAIN fs \ names |-> fs[f]]
\* (Variant: the directory is removed with whatever it holds.)
RmdirForce(d, fs) == FALSE
\* rmdir removes a directory only when it is empty.
Rmdir(d, fs) == IF DOMAIN fs = {} THEN FALSE ELSE d

\* !rm $data_dir/*   (shell lines never raise)
Cleanup ==
    /\ pc = "cleanup"
    /\ files' = Rm(files, Glob(files))
    /\ data_dir' = data_dir
    /\ Goto("cleanup")
    /\ UNCHANGED << nb, dataVars, storeVars, serviceVars, rmse, xgb_attached,
                    Y_pred, calls >>

\* !rmdir $data_dir
RmdirLine ==
    /\ pc = "rmdir"
    /\ data_dir' = Rmdir(data_dir, files)
    /\ files' = files
    /\ Goto("rmdir")
    /\ UNCHANGED << nb, dataVars, storeVars, serviceVars, rmse, xgb_attached,
                    Y_pred, calls >>

\* ------------------------------------------------------- tuning notebook
\* HyperparameterTuner(estimator = xgb, objective_metric_name =
\* 'validation:rmse', objective_type = 'Minimize', max_jobs = 20,
\* max_parallel_jobs = 3, hyperparameter_ranges = {...})
objective_type == "Minimize"
Jobs == 1..max_jobs
NoMetric == 0

\* The objective values the training jobs of one tuning job end with: job a
\* reports v (NoMetric: it failed and reports none), every other job reports
\* MaxRmse; or no job reports any.
RmseInputs ==
    { [j \in Jobs |-> IF j = a THEN v ELSE MaxRmse] :
        a \in Jobs, v \in {NoMetric} \cup (1..MaxRmse) }
    \cup { [j \in Jobs |-> NoMetric] }

\* Local object only: no service call.
Tuner ==
    /\ pc = "tuner"
    /\ Goto("tuner")
    /\ UNCHANGED << nb, dataVars, localVars, storeVars, serviceVars, rmse,
                    xgb_attached, Y_pred, calls >>

\* xgb_hyperparameter_tuner.fit({'train': s3_input_train, 'validation':
\* s3_input_validation}): creates the tuning job and returns at once.
\* (Variant: the two channels swapped.)
TunerFitChannelsSwapped(tl, vl) == [train |-> vl, validation |-> tl]
TunerFitChannels(tl, vl) == [train |-> tl, validation |-> vl]

TunerFit ==
    /\ pc = "tuner_fit"
    /\ LET ch == TunerFitChannels(train_location, val_location)
       IN tuning' = [status |-> "InProgress", launched |-> 0, running |-> 0,
                     train |-> ch.train, validation |-> ch.validation,
                     best |-> None]
    /\ rmse' \in RmseInputs
    /\ calls' = Append(calls, Call("tuner.fit", NoValue))
    /\ Goto("tuner_fit")
    /\ UNCHANGED << nb, dataVars, localVars, storeVars, job, endpoint, best,
                    transform, xgb_attached, Y_pred >>

\* Service: the tuning job starts its next training job while fewer than
\* max_parallel_jobs run and fewer than max_jobs have been started.
\* (Variant: no limit on parallel training jobs.)
ParallelLimitIgnored == max_jobs
ParallelLimit == max_parallel_jobs
JobLimit == max_jobs

TuningLaunch ==
    /\ tuning.status = "InProgress"
    /\ tuning.launched < JobLimit
    /\ tuning.running < ParallelLimit
    /\ tuning' = [tuning EXCEPT !.launched = @ + 1, !.running = @ + 1]
    /\ UNCHANGED << nb, pc, raisedAt, dataVars, localVars, storeVars, job,
                    endpoint, best, transform, rmse, xgb_attached, Y_pred,
                    calls >>

\* Service: one running training job of the tuning job ends.  A job that
\* completed (it has an objective value) has left its model artifact under
\* output_path; whether one of the jobs ended so far did is decided by their
\* number where it can be, and is open otherwise.
Failing == {j \in Jobs : rmse[j] = NoMetric}

TuningJobEnds ==
    /\ tuning.running > 0
    /\ tuning' = [tuning EXCEPT !.running = @ - 1]
    /\ LET ended == tuning.launched - tuning.running + 1
       IN s3' \in (IF ended > Cardinality(Failing)
                   THEN {WithArtifact(s3, nb)}
                   ELSE IF Failing = Jobs THEN {s3}
                   ELSE {s3, WithArtifact(s3, nb)})
    /\ UNCHANGED << nb, pc, raisedAt, dataVars, localVars, train_location,
                    val_location, test_location, job,
                    endpoint, best, transform, rmse, xgb_attached, Y_pred,
                    calls >>

\* The training jobs that have ended: all started ones but the running ones
\* (the tuning job counts them; which ones run is any choice of that many).
RunningSets ==
    { R \in { {a, b, c} : a, b, c \in 1..tuning.launched } :
        Cardinality(R) = tuning.running }
EndedSets ==
    IF tuning.running = 0 THEN { 1..tuning.launched }
    ELSE { (1..tuning.launched) \ R : R \in RunningSets }

\* best_training_job(): the service's BestTrainingJob, an ended training job
\* whose objective value no other ended job's value beats under
\* objective_type.
\* (Variant: objective_type = 'Maximize'.)
BeatsMaximize(x, y) == x > y
Beats(x, y) == IF objective_type = "Minimize" THEN x < y ELSE x > y

BestJobs(ended) ==
    { j \in ended : /\ rmse[j] # NoMetric
                    /\ \A k \in ended :
                         rmse[k] # NoMetric => ~Beats(rmse[k], rmse[j]) }

\* What best_training_job() can return: the completed tuning job's
\* BestTrainingJob; of a tuning job that has not completed, the best of the
\* training jobs ended so far.
BestTrainingJobResult ==
    IF tuning.status = "Completed"
    THEN { j \in Jobs : tuning.best = Some(j) }
    ELSE UNION { BestJobs(e) : e \in EndedSets }

\* Service: the tuning job completes once all its training jobs have ended.
TuningCompletes ==
    /\ tuning.status = "InProgress"
    /\ tuning.launched = JobLimit /\ tuning.running = 0
    /\ \/ /\ BestJobs(Jobs) = {}
          /\ tuning' = [tuning EXCEPT !.status = "Completed"]
       \/ \E j \in BestJobs(Jobs) :
            tuning' = [tuning EXCEPT !.status = "Completed", !.best = Some(j)]
    /\ UNCHANGED << nb, pc, raisedAt, dataVars, localVars, storeVars, job,
                    endpoint, best, transform, rmse, xgb_attached, Y_pred,
                    calls >>

\* Service: the tuning job fails; it starts no further training job.
TuningFails ==
    /\ tuning.status = "InProgress"
    /\ tuning' = [tuning EXCEPT !.status = "Failed"]
    /\ UNCHANGED << nb, pc, raisedAt, dataVars, localVars, storeVars, job,
                    endpoint, best, transform, rmse, xgb_attached, Y_pred,
                    calls >>

\* xgb_hyperparameter_tuner.wait(): polls until the tuning job has ended, and
\* raises when it ended failed.
\* (Variant: a wait() that returns while the job is in progress.)
WaitReturnsEarly(st) == st \in {"InProgress", "Completed", "Failed"}
WaitReturns(st) == st \in {"Completed", "Failed"}

TunerWait ==
    /\ pc = "tuner_wait" /\ WaitReturns(tuning.status)
    /\ calls' = Append(calls, Call("tuner.wait", NoValue))
    /\ IF tuning.status = "Failed" THEN Raise("tuner_wait")
       ELSE Goto("tuner_wait")
    /\ UNCHANGED << nb, dataVars, localVars, storeVars, serviceVars, rmse,
                    xgb_attached, Y_pred >>

\* The best_training_job() cell; raises when no best job is available.
BestTrainingJob ==
    /\ pc = "best_training_job"
    /\ calls' = Append(calls, Call("best_training_job", NoValue))
    /\ \/ /\ BestTrainingJobResult = {}
          /\ best' = best
          /\ Raise("best_training_job")
       \/ /\ \E j \in BestTrainingJobResult : best' = Some(j)
          /\ Goto("best_training_job")
    /\ UNCHANGED << nb, dataVars, localVars, storeVars, job, endpoint,
                    tuning, transform, rmse, xgb_attached, Y_pred >>

\* xgb_attached = Estimator.attach(xgb_hyperparameter_tuner.best_training_job())
Attach ==
    /\ pc = "attach"
    /\ calls' = Append(Append(calls, Call("best_training_job", NoValue)),
                       Call("attach", NoValue))
    /\ \/ /\ BestTrainingJobResult = {}
          /\ xgb_attached' = xgb_attached
          /\ Raise("attach")
       \/ /\ \E j \in BestTrainingJobResult : xgb_attached' = Some(j)
          /\ Goto("attach")
    /\ UNCHANGED << nb, dataVars, localVars, storeVars, serviceVars, rmse,
                    Y_pred >>

\* xgb_transformer = xgb_attached.transformer(instance_count = 1, ...)
Transformer ==
    /\ pc = "transformer"
    /\ calls' = Append(calls, Call("transformer", NoValue))
    /\ Goto("transformer")
    /\ UNCHANGED << nb, dataVars, localVars, storeVars, serviceVars, rmse,
                    xgb_attached, Y_pred >>

\* xgb_transformer.transform(test_location, content_type='text/csv',
\* split_type='Line'): starts the batch transform job and returns; the job
\* runs in the background.
TransformCall ==
    /\ pc = "transform"
    /\ transform' = [status |-> "InProgress", input |-> test_location]
    /\ calls' = Append(calls, Call("transform", test_location))
    /\ Goto("transform")
    /\ UNCHANGED << nb, dataVars, localVars, storeVars, job, endpoint,
                    tuning, best, rmse, xgb_attached, Y_pred >>

\* xgb_transformer.output_path: where the job writes <input name>.out
OutputPath == "transform-output"

\* Service: the transform job ends; completed, it has written one prediction
\* per input row to output_path/test.csv.out.
TransformEnds ==
    /\ transform.status = "InProgress"
    /\ \/ /\ transform.input \in DOMAIN s3
          /\ transform' = [transform EXCEPT !.status = "Completed"]
          /\ s3' = Put(s3, Key(OutputPath, "test.csv.out"),
                       Csv(<< "predictions" >>, s3[transform.input].rows))
       \/ /\ transform' = [transform EXCEPT !.status = "Failed"]
          /\ s3' = s3
    /\ UNCHANGED << nb, pc, raisedAt, dataVars, localVars, train_location,
                    val_location, test_location, job, endpoint, tuning, best,
                    rmse, xgb_attached, Y_pred, calls >>

\* xgb_transformer.wait(): polls until the transform job has ended, and
\* raises when it ended failed.
\* (Variant: a wait() that returns while the job is in progress.)
TransformWaitReturnsEarly(st) == st \in {"InProgress", "Completed", "Failed"}
TransformWaitReturns(st) == st \in {"Completed", "Failed"}

TransformWait ==
    /\ pc = "transform_wait" /\ TransformWaitReturns(transform.status)
    /\ calls' = Append(calls, Call("transform.wait", NoValue))
    /\ IF transform.status = "Failed" THEN Raise("transform_wait")
       ELSE Goto("transform_wait")
    /\ UNCHANGED << nb, dataVars, localVars, storeVars, serviceVars, rmse,
                    xgb_attached, Y_pred >>

\* !aws s3 cp --recursive $xgb_transformer.output_path $data_dir
\* Copies every object under output_path into data_dir (a shell line: it
\* never raises, and copies nothing when there is nothing).
RECURSIVE CopyAll(_, _)
CopyAll(fs, keys) ==
    IF keys = {} THEN fs
    ELSE LET k == CHOOSE x \in keys : TRUE
         IN CopyAll(Put(fs, k[2], s3[k]), keys \ {k})

S3Cp ==
    /\ pc = "s3_cp"
    /\ files' = CopyAll(files, { k \in DOMAIN s3 : k[1] = OutputPath })
    /\ Goto("s3_cp")
    /\ UNCHANGED << nb, dataVars, data_dir, storeVars, serviceVars, rmse,
                    xgb_attached, Y_pred, calls >>

\* Y_pred = pd.read_csv(os.path.join(data_dir, 'test.csv.out'), header=None)
ReadCsv ==
    /\ pc = "read_csv"
    /\ IF "test.csv.out" \in DOMAIN files
       THEN Y_pred' = Some(files["test.csv.out"].rows) /\ Goto("read_csv")
       ELSE Y_pred' = Y_pred /\ Raise("read_csv")
    /\ UNCHANGED << nb, dataVars, localVars, storeVars, serviceVars, rmse,
                    xgb_attached, calls >>

Next ==
    \/ LoadData \/ SplitCell \/ MakeDirs \/ SaveCsv \/ Upload \/ Estimator
    \/ FitCall \/ TrainingJobEnds \/ FitReturn
    \/ DeployCall \/ EndpointStarts \/ DeployReturn
    \/ Predict \/ Plot \/ DeleteEndpoint \/ Cleanup \/ RmdirLine
    \/ Tuner \/ TunerFit
    \/ TuningLaunch \/ TuningJobEnds \/ TuningCompletes \/ TuningFails
    \/ TunerWait \/ BestTrainingJob \/ Attach
    \/ Transformer \/ TransformCall \/ TransformEnds \/ TransformWait
    \/ S3Cp \/ ReadCsv

Spec == Init /\ [][Next]_vars

\* The same runs, started with anything the data directory may hold.
InitLocal == InitOn(1..MaxRows, Leftovers)
SpecLocal == InitLocal /\ [][Next]_vars

\* Row counts only: the dataset sizes 1..MaxSizeRows and the Boston dataset's,
\* the split cell run with one fixed shuffle (the counts do not depend on it).
SplitCellSorted == SplitWith("sorted")
InitSizes == InitWith((1..MaxSizeRows) \cup {BostonRows})
NextSizes == LoadData \/ SplitCellSorted
SpecSizes == InitSizes /\ [][NextSizes]_vars

\* ------------------------------------------------------------ properties
Called(op) == \E i \in 1..Len(calls) : calls[i].op = op
CallsNow(op) == calls' # calls /\ calls'[Len(calls')].op = op

\* The cells of notebook n that come after cell c, and the end of the run.
Later(n, c) ==
    { Cells(n)[i] : i \in (IndexOf(Cells(n), c) + 1)..Len(Cells(n)) }
        \cup {"done"}
\* The kernel has returned from cell c of notebook n.
Past(n, c) == nb = n /\ (pc \in Later(n, c) \/ raisedAt \in Later(n, c))

\* C1: in the Deploy notebook an endpoint that is in service stays in service
\* over every step except the delete_endpoint() call: predict, plotting and
\* the local clean-up leave it running.
C1_EndpointRunsUntilDeleted ==
    [][ (nb = "deploy" /\ endpoint = "InService" /\ endpoint' # "InService")
          => (pc = "delete_endpoint" /\ CallsNow("delete_endpoint")) ]_vars

C1_Witness ==
    /\ nb = "deploy" /\ endpoint = "InService"
    /\ pc = "delete_endpoint" /\ Called("predict")

\* C2: a Deploy-notebook run that has executed all cells ends with no endpoint
\* running, and no predict call comes after delete_endpoint().
C2_EndpointShutDown ==
    /\ (nb = "deploy" /\ pc = "done") => endpoint = "Deleted"
    /\ \A i, j \in 1..Len(calls) :
         (calls[i].op = "delete_endpoint" /\ calls[j].op = "predict") => j < i

C2_Witness ==
    /\ nb = "deploy" /\ pc = "done"
    /\ Called("predict") /\ Called("delete_endpoint")

\* C3: in both notebooks the training (tuning) job is created only when
\* train.csv and validation.csv exist locally and have been uploaded, and its
\* 'train' channel is the uploaded train.csv, its 'validation' channel the
\* uploaded validation.csv.
ChannelsRight(j) ==
    /\ {"train.csv", "validation.csv"} \subseteq DOMAIN files
    /\ j.train = Key(Prefix(nb), "train.csv")
    /\ j.validation = Key(Prefix(nb), "validation.csv")
    /\ j.train \in DOMAIN s3 /\ j.validation \in DOMAIN s3
    /\ s3[j.train] = files["train.csv"]
    /\ s3[j.validation] = files["validation.csv"]
    /\ s3[j.train] = Csv(<< "target", "features" >>, X_train)
    /\ s3[j.validation] = Csv(<< "target", "features" >>, X_val)
    /\ train_location = j.train /\ val_location = j.validation

C3_TrainingAfterUpload ==
    [][ /\ (job.status = "none" /\ job'.status # "none")
             => ChannelsRight(job')
        /\ (tuning.status = "none" /\ tuning'.status # "none")
             => ChannelsRight(tuning') ]_vars

C3_Witness ==
    /\ nb = "tuning" /\ tuning.status = "InProgress" /\ tuning.running > 0
    /\ tuning.train # tuning.validation
    /\ X_train # {} /\ X_val # {}

\* C4: in the Deploy notebook the calls come in the order fit, deploy,
\* predict, delete_endpoint; deploy is called only once the training job has
\* completed and predict only once the endpoint is in service.
DeployOrder == << "fit", "deploy", "predict", "delete_endpoint" >>
ServiceCalls ==
    SelectSeq(calls, LAMBDA c : c.op \in {"fit", "deploy", "predict",
                                           "delete_endpoint"})

C4_FitDeployPredictDelete ==
    /\ [](nb = "deploy" =>
            /\ Len(ServiceCalls) <= Len(DeployOrder)
            /\ \A i \in 1..Len(ServiceCalls) :
                 ServiceCalls[i].op = DeployOrder[i]
            /\ (endpoint # "none" => job.status = "Completed"))
    /\ [][ /\ CallsNow("deploy") => job.status = "Completed"
           /\ CallsNow("predict") => endpoint = "InService"
           /\ CallsNow("delete_endpoint") => Called("predict") ]_vars

C4_Witness ==
    /\ nb = "deploy" /\ pc = "cleanup" /\ endpoint = "Deleted"
    /\ Len(ServiceCalls) = 4

\* C5: the tuning job never runs more than 3 training jobs at once, never
\* starts more than 20, and has run exactly 20 when it completes.
C5_TuningJobLimits ==
    /\ tuning.running <= 3
    /\ tuning.launched <= 20
    /\ tuning.status = "Completed" =>
         (tuning.launched = 20 /\ tuning.running = 0)

C5_Witness ==
    /\ tuning.status = "InProgress"
    /\ tuning.running = 3 /\ tuning.launched = 20

\* C6: the training job best_training_job() names has the smallest
\* validation:rmse of all training jobs of the tuning job that report one.
C6_BestIsMinimal ==
    \A j \in Jobs :
        (best = Some(j) \/ xgb_attached = Some(j)) =>
            /\ rmse[j] # NoMetric
            /\ \A k \in Jobs : rmse[k] # NoMetric => rmse[j] <= rmse[k]

C6_Witness ==
    \E j \in Jobs :
        /\ best = Some(j) /\ xgb_attached = Some(j)
        /\ \E k \in Jobs : rmse[k] # NoMetric /\ rmse[j] < rmse[k]
        /\ tuning.status = "Completed" /\ tuning.launched = 20

\* C7: tuner.fit() returns with the tuning job in progress; the cells after
\* wait() (best_training_job(), Estimator.attach()) run only when the tuning
\* job has completed and none of its training jobs is running.
C7_WaitBeforeBest ==
    /\ [](( Past("tuning", "tuner_wait")
            \/ Called("best_training_job") \/ Called("attach"))
           => (tuning.status = "Completed" /\ tuning.running = 0))
    /\ [][ CallsNow("tuner.fit")
             => (tuning'.status = "InProgress" /\ pc' = "tuner_wait") ]_vars

C7_Witness ==
    /\ nb = "tuning" /\ pc = "transformer"
    /\ Called("tuner.wait") /\ Called("attach")
    /\ xgb_attached # None

\* C8: transform() returns with the transform job in progress; the output is
\* copied and read only after wait() has returned, when the job has
\* completed and its output object exists.
C8_WaitBeforeCopy ==
    /\ [](Past("tuning", "transform_wait")
           => /\ transform.status = "Completed"
              /\ Key(OutputPath, "test.csv.out") \in DOMAIN s3
              /\ Called("transform.wait"))
    /\ []((nb = "tuning" /\ Y_pred # None)
           => /\ "test.csv.out" \in DOMAIN files \/ Past("tuning", "plot")
              /\ Y_pred = Some(X_test))
    /\ [][ CallsNow("transform")
             => (transform'.status = "InProgress"
                 /\ pc' = "transform_wait") ]_vars

C8_Witness ==
    /\ nb = "tuning" /\ pc = "plot" /\ Y_pred = Some(X_test)
    /\ "test.csv.out" \in DOMAIN files /\ X_test # {}

\* C9: once the split cell has returned, every row of the dataset is in
\* exactly one of X_train, X_val and X_test.
C9_SplitIsPartition ==
    (pc \notin {"load", "split"} /\ raisedAt # "split") =>
        /\ X_train \cup X_val \cup X_test = 1..nrows
        /\ X_train \cap X_val = {}
        /\ X_train \cap X_test = {}
        /\ X_val \cap X_test = {}

C9_Witness ==
    /\ pc = "makedirs"
    /\ X_train # {} /\ X_val # {} /\ X_test # {}
    /\ Cardinality(X_test) > 1

\* C10 (as amended): each split puts ceil(0.33 * n) of its n rows in the
\* second part and the rest in the first; for the 506-row dataset that is
\* 167 test rows, 112 validation rows and 227 training rows.
CeilOf33Percent(k, n) == 100 * k >= 33 * n /\ 100 * (k - 1) < 33 * n

ThirdOf(k, n) == 3 * k >= n - 2 /\ 3 * k <= n + 2

PastAnywhere(c) == Past("deploy", c) \/ Past("tuning", c)

C11_CsvLayout ==
    PastAnywhere("to_csv") =>
        /\ \A f \in {"train.csv", "validation.csv"} \cap DOMAIN files :
             /\ files[f].cols = << "target", "features" >>
             /\ files[f].cols[1] = "target"
             /\ ~files[f].header
        /\ "train.csv" \in DOMAIN files => files["train.csv"].rows = X_train
        /\ "validation.csv" \in DOMAIN files
             => files["validation.csv"].rows = X_val
        /\ (nb = "tuning" /\ "test.csv" \in DOMAIN files) =>
             /\ files["test.csv"].cols = << "features" >>
             /\ ~files["test.csv"].header
             /\ files["test.csv"].rows = X_test
        /\ \A k \in DOMAIN s3 :
             (k[1] = Prefix(nb) /\ k[2] \in {"train.csv", "validation.csv"})
                => (s3[k].cols = << "target", "features" >> /\ ~s3[k].header)

C11_Witness ==
    /\ nb = "tuning" /\ pc = "estimator"
    /\ {"train.csv", "validation.csv", "test.csv"} \subseteq DOMAIN files
    /\ Key(Prefix(nb), "train.csv") \in DOMAIN s3
    /\ X_train # {} /\ X_val # {} /\ X_test # {}

\* C12: the 'local data directory' cell leaves data_dir existing whether or
\* not it existed before, leaves what the directory held untouched, and
\* running it again on its own result changes nothing.
C12_MakeDirsIdempotent ==
    [][(pc = "makedirs" /\ pc' # pc) =>
          /\ data_dir'
          /\ files' = files
          /\ MakeDirsResult(data_dir', files')
                = [dir |-> data_dir', files |-> files']]_vars

C12_Witness ==
    /\ pc = "to_csv" /\ data_dir
    /\ "train.csv" \in DOMAIN files

\* The files a run of notebook n writes into data_dir.
Created(n) ==
    {"train.csv", "validation.csv"}
        \cup (IF n = "tuning" THEN {"test.csv", "test.csv.out"} ELSE {})

PredictCalls == {i \in 1..Len(calls) : calls[i].op = "predict"}

C14_SinglePredict ==
    nb = "deploy" =>
        /\ Cardinality(PredictCalls) <= 1
        /\ \A i \in PredictCalls : calls[i].arg = X_test
        /\ (Past("deploy", "predict") \/ raisedAt = "predict")
              => Cardinality(PredictCalls) = 1
        /\ Y_pred # None => Y_pred = Some(X_test)

C14_Witness ==
    /\ nb = "deploy" /\ pc = "plot"
    /\ Cardinality(X_test) > 1
    /\ Cardinality(PredictCalls) = 1
    /\ Y_pred = Some(X_test)

\* The keys a run of notebook n can write: its uploads and its training
\* output under its prefix and, for the tuning notebook, the transform
\* job's output under that job's own path.
UploadKeys(n) == {Key(Prefix(n), UploadList(n)[i]) : i \in 1..Len(UploadList(n))}
WrittenKeys(n) ==
    UploadKeys(n) \cup {OutputKey(n)}
        \cup (IF n = "tuning" THEN {Key(OutputPath, "test.csv.out")} ELSE {})

\* C15: every object a run writes has one of its notebook's keys, and no
\* key of the Deploy notebook is a key of the tuning notebook: their
\* prefixes differ; within one notebook the uploaded files have pairwise
\* distinct keys, so every upload is there under its own key.
C15_KeysDisjoint ==
    /\ DOMAIN s3 \subseteq WrittenKeys(nb)
    /\ Prefix("deploy") # Prefix("tuning")
    /\ WrittenKeys("deploy") \cap WrittenKeys("tuning") = {}
    /\ \A n \in {"deploy", "tuning"} :
         Cardinality(UploadKeys(n)) = Len(UploadList(n))
    /\ PastAnywhere("upload") =>
         /\ UploadKeys(nb) \subseteq DOMAIN s3
         /\ train_location # val_location
         /\ nb = "tuning" =>
              (test_location # train_location /\ test_location # val_location)
         /\ \A k \in UploadKeys(nb) :
              k[2] \in DOMAIN files => s3[k] = files[k[2]]

C15_Witness ==
    /\ nb = "tuning" /\ pc = "s3_cp"
    /\ OutputKey(nb) \in DOMAIN s3
    /\ Key(OutputPath, "test.csv.out") \in DOMAIN s3
    /\ UploadKeys(nb) \subseteq DOMAIN s3

\* The cell in which a call is first made.
CellOf(op) ==
    CASE op = "upload_data" -> "upload"
      [] op = "tuner.fit" -> "tuner_fit"
      [] op = "tuner.wait" -> "tuner_wait"
      [] op = "transform.wait" -> "transform_wait"
      [] OTHER -> op

\* C16: nothing handles a failure.  A run that raised in a cell stays
\* stopped there: the kernel makes no further call and changes nothing
\* local, and no call of a later cell has been made.  So nothing is deployed
\* from a failed training job, nothing is predicted on an endpoint whose
\* creation failed, no best training job is asked of a failed tuning job,
\* and no output of a failed transform job is fetched.
C16_StopsAtFailure ==
    /\ [](raisedAt # "none" =>
            /\ pc = "raised"
            /\ \A i \in 1..Len(calls) :
                 CellOf(calls[i].op) \notin Later(nb, raisedAt))
    /\ [](pc = "raised" => raisedAt \in {Cells(nb)[i] : i \in 1..Len(Cells(nb))})
    /\ [](job.status = "Failed" => (~Called("deploy") /\ endpoint = "none"))
    /\ [](endpoint = "Failed" => ~Called("predict"))
    /\ [](tuning.status = "Failed" => ~Called("best_training_job"))
    /\ [](transform.status = "Failed" =>
            (Y_pred = None /\ "test.csv.out" \notin DOMAIN files
               /\ pc \in {"transform_wait", "raised"}))
    /\ [][pc = "raised" =>
            /\ pc' = "raised" /\ raisedAt' = raisedAt
            /\ calls' = calls
            /\ files' = files /\ data_dir' = data_dir
            /\ Y_pred' = Y_pred]_vars

C16_Witness ==
    /\ nb = "deploy" /\ pc = "raised" /\ raisedAt = "fit"
    /\ job.status = "Failed"
    /\ Called("fit") /\ ~Called("deploy")
    /\ endpoint = "none"
====
